---- MODULE Spec2Model ----
(***************************************************************************)
(* Model of the obsidian-video-preview plugin.                             *)
(*                                                                         *)
(*   src/unnamed/part_000  VideoPlugin: settings with a save-time check,   *)
(*                         the anchor-based (structural) pipeline, the     *)
(*                         embed-info lookup and the two-step channel-icon *)
(*                         lookup, and the pretty-link builder.            *)
(*   src/main.ts           MyPlugin: the earlier regex-over-innerHTML      *)
(*                         (textual) pipeline.                             *)
(*                                                                         *)
(* Strings that the URL regex inspects are sequences of tokens; a token is *)
(* a run of characters that the regex treats as a unit ("http", "://",     *)
(* "youtu.be", ...), and " " is the only whitespace token.                 *)
(***************************************************************************)
EXTENDS Naturals, Sequences, FiniteSets, TLC

VARIABLES
    settings,       \* plugin.settings (in memory)
    stored,         \* the plugin's data.json, as loadData() would return it
    lastSave,       \* what the most recent saveSettings() call did
    notice,         \* the most recent saveSettings() call showed a Notice
    apiKeyDisplay,  \* style.display of the API-key row of the settings tab
    content,        \* children of the element handed to processMarkdown
    pc,             \* where the running processMarkdown is suspended
    anchorArray,    \* positions of the anchors snapshotted by the pass
    idx,            \* index into anchorArray / matches of the current item
    data,           \* embed-info outcome held while the icon lookup runs
    channelId,      \* result of getChannelIdFromUrl held across the await
    calls,          \* external calls issued by the current/last pass
    last,           \* the most recent completed fetchVideoMetadata call
    results,        \* per candidate resolved by the pass: was it non-null
    subs,           \* substitutions made by the current/last pass
    iconSeenOn,     \* showChannelIcon was true at some point of the pass
    cleanStart,     \* the pass started on content with no raw video link
    startSettings,  \* the settings in force when the pass started (kept
                    \* under SpecSnapshot only, NoData elsewhere)
    cand,           \* settings values read, and the detail answer received,
                    \* while resolving the current/last candidate
    settled,        \* fetches of the pass that have settled
    html,           \* element.innerHTML of the textual variant
    matches,        \* result of innerHTML.match(youtubeRegex)
    u,              \* input string of the URL classifier
    verdict         \* what isYouTubeUrl answered for u

vars == <<settings, stored, lastSave, notice, apiKeyDisplay, content, pc,
          anchorArray, idx, data, channelId, calls, last, results, subs,
          iconSeenOn, cleanStart, startSettings, cand, settled, html,
          matches, u, verdict>>

settingsVars == <<settings, stored, lastSave, notice, apiKeyDisplay>>
passVars == <<content, pc, anchorArray, idx, data, channelId, calls, last,
              results, subs, iconSeenOn, cleanStart, startSettings, cand,
              settled>>
textVars == <<html, matches>>
urlVars == <<u, verdict>>

(***************************************************************************)
(* Bounds                                                                  *)
(***************************************************************************)
MaxAnchors == 2
MaxUrlLen == 6
MaxWords == 2

Null == "<null>"
Undefined == "<undefined>"

\* JavaScript truthiness of the string-or-absent values the code tests.
Truthy(v) == v \notin {Null, Undefined, ""}

(***************************************************************************)
(* URL classifier                                                          *)
(***************************************************************************)
Sym == {"http", "s", "://", "www.", "youtube.com", "youtu.be", "/", "a", " "}

\* Positions reached from a position of P by reading the literal tok.
Lit(s, P, tok) == {p + 1 : p \in {q \in P : q <= Len(s) /\ s[q] = tok}}

\* tok? of the regex.
Opt(s, P, tok) == P \cup Lit(s, P, tok)

\* Positions at which \S+ starts when the regex is matched from position p.
PathStarts(s, p) ==
    LET a == Lit(s, {p}, "http")
        b == Opt(s, a, "s")
        c == Lit(s, b, "://")
        d == Opt(s, c, "www.")
        e == Lit(s, d, "youtube.com") \cup Lit(s, d, "youtu.be")
        f == Lit(s, e, "/")
    IN  {q \in f : q <= Len(s) /\ s[q] # " "}

\* youtubeRegex matches s starting at position p.
MatchesAt(s, p) == PathStarts(s, p) # {}

\* youtubeRegex.test(url): a match starting anywhere in url.
isYouTubeUrl(url) == \E p \in 1..Len(url) : MatchesAt(url, p)

(***************************************************************************)
(* Settings                                                                *)
(***************************************************************************)
Keys == {"", "key"}
Fields == {"showThumbnail", "showChannelIcon", "apiKey"}

DEFAULT_SETTINGS ==
    [showThumbnail |-> TRUE, showChannelIcon |-> TRUE, apiKey |-> ""]

\* loadData() of a fresh install.
NoData == <<>>

\* Object.assign({}, DEFAULT_SETTINGS, loaded)
loadSettings(loaded) ==
    [f \in Fields |-> IF f \in DOMAIN loaded THEN loaded[f]
                      ELSE DEFAULT_SETTINGS[f]]

\* The condition under which saveSettings shows the notice and returns.
SaveRejectedNever(s) == FALSE

SaveRejected(s) == s.showChannelIcon /\ ~Truthy(s.apiKey)

\* saveSettings() called with the in-memory settings s; saveData(s) writes
\* the whole object.
saveSettings(s) ==
    IF SaveRejected(s)
    THEN /\ lastSave' = "rejected"
         /\ notice' = TRUE
         /\ stored' = stored
    ELSE /\ lastSave' = "saved"
         /\ notice' = FALSE
         /\ stored' = s

\* What data.json can hold when the plugin loads: nothing, what MyPlugin
\* (src/main.ts) saved, or what an accepted saveSettings of VideoPlugin saved.
FullSettings ==
    [showThumbnail : BOOLEAN, showChannelIcon : BOOLEAN, apiKey : Keys]

StoredAtLoad ==
    {NoData} \cup [showThumbnail : BOOLEAN]
             \cup {s \in FullSettings : ~(s.showChannelIcon /\ s.apiKey = "")}

\* display(): builds the three controls; toggleApiKeySetting at the end.
ApiKeyRow(visible) == IF visible THEN "block" ELSE "none"

display ==
    /\ apiKeyDisplay' = ApiKeyRow(settings.showChannelIcon)
    /\ UNCHANGED <<settings, stored, lastSave, notice>>

\* onChange of the Thumbnail toggle.
onChangeThumbnail(value) ==
    /\ apiKeyDisplay # "unset"
    /\ settings' = [settings EXCEPT !.showThumbnail = value]
    /\ saveSettings(settings')
    /\ UNCHANGED apiKeyDisplay

\* onChange of the Channel Icon toggle.
onChangeChannelIcon(value) ==
    /\ apiKeyDisplay # "unset"
    /\ settings' = [settings EXCEPT !.showChannelIcon = value]
    /\ apiKeyDisplay' = ApiKeyRow(value)
    /\ saveSettings(settings')

\* onChange of the API key text field.
onChangeApiKey(value) ==
    /\ apiKeyDisplay # "unset"
    /\ settings' = [settings EXCEPT !.apiKey = value]
    /\ saveSettings(settings')
    /\ UNCHANGED apiKeyDisplay


(***************************************************************************)
(* Rendered content and the replacement node                               *)
(***************************************************************************)
YT1 == <<"http", "s", "://", "youtu.be", "/", "a">>
Other == <<"http", "s", "://", "example.com", "/", "a">>
\* getAttribute("href") of an anchor without one (null, falsy like "").
NoHref == <<>>

Element(tag, href) ==
    [tag |-> tag, cls |-> "", href |-> href, target |-> "", rel |-> "",
     thumbnail |-> <<>>, title |-> "", author |-> "", icon |-> <<>>]

\* What the host hands to the post processor: plain anchors and other
\* elements.
RawElements ==
    {Element("a", h) : h \in {NoHref, YT1, Other}}
        \cup {Element("span", NoHref)}

Contents == UNION {[1..n -> RawElements] : n \in 1..MaxAnchors}

\* createPrettyLink(metadata) under settings s; an <img> child is a
\* one-element sequence holding its src.
createPrettyLink(metadata, s) ==
    [tag |-> "a", cls |-> "video-metadata-container",
     href |-> metadata.url, target |-> "_blank",
     rel |-> "noopener noreferrer",
     thumbnail |-> IF s.showThumbnail THEN <<metadata.thumbnail_url>>
                   ELSE <<>>,
     title |-> metadata.title, author |-> metadata.author_name,
     icon |-> IF Truthy(metadata.channel_icon_url)
              THEN <<metadata.channel_icon_url>> ELSE <<>>]

IsPretty(el) == el.cls = "video-metadata-container"

(***************************************************************************)
(* External services                                                       *)
(***************************************************************************)
\* noembed.com: the request fails, the body is not JSON (an HTML error
\* page), the body is the JSON value null, the body is the full record, the
\* record with an empty thumbnail_url, or a JSON error object without title,
\* author_name and thumbnail_url.
EmbedOutcomes ==
    {"neterr", "nonjson", "null", "full", "emptythumb", "errorbody"}

EmbedBody(o) ==
    CASE o = "full" ->
           [title |-> "T", author_name |-> "A", thumbnail_url |-> "thumb",
            author_url |-> "chan"]
      [] o = "emptythumb" ->
           [title |-> "T", author_name |-> "A", thumbnail_url |-> "",
            author_url |-> "chan"]
      [] OTHER ->
           [title |-> Undefined, author_name |-> Undefined,
            thumbnail_url |-> Undefined, author_url |-> Undefined]

\* fetch() or response.json() rejects.
EmbedThrows(o) == o \in {"neterr", "nonjson"}

\* `if (data)`: JSON null is the falsy parse result.
EmbedDataTruthy(o) == o # "null"

\* youtube/v3/search: request fails, body not JSON, JSON null, JSON without
\* items (an API error object), items empty, or a first item.
SearchOutcomes == {"neterr", "nonjson", "null", "noitems", "empty", "ok"}

\* getChannelIdFromUrl: every throw is caught and gives null.
getChannelIdFromUrl(o) == IF o = "ok" THEN "UC1" ELSE Null

\* youtube/v3/channels: as for search, or a first item without thumbnails.
DetailOutcomes ==
    {"neterr", "nonjson", "null", "noitems", "empty", "nothumb", "ok"}

\* fetchChannelIcon once the detail fetch settles with o: the fetch or
\* json() rejecting, `data.items` of null and `.thumbnails.default` of a
\* snippet without thumbnails raise inside the try, and the catch turns
\* every raise into null; so does the absence or emptiness of items.
fetchChannelIcon(o) ==
    [threw |-> FALSE, value |-> IF o = "ok" THEN "icon" ELSE Null]

IconGateByKey(s) == Truthy(s.apiKey)

\* `this.settings.showChannelIcon ? ... : null`
IconGate(s) == s.showChannelIcon

MetadataNoIcon(body, url, icon) ==
    [title |-> body.title, author_name |-> body.author_name,
     thumbnail_url |-> body.thumbnail_url, url |-> url,
     channel_icon_url |-> Null]

\* The object literal returned by fetchVideoMetadata (lines 87-93).
Metadata(body, url, icon) ==
    [title |-> body.title, author_name |-> body.author_name,
     thumbnail_url |-> body.thumbnail_url, url |-> url,
     channel_icon_url |-> icon]

NoCalls == [embed |-> 0, search |-> 0, detail |-> 0]

\* Nothing read yet: a field is <<>> until the code reads the setting, then
\* <<value>>; detail is the class of the channels answer.
NoReads ==
    [icon |-> <<>>, searchKey |-> <<>>, detailKey |-> <<>>, thumb |-> <<>>,
     detail |-> "none"]

\* this.settings.apiKey as read by an icon call; the value is logged only for
\* a pass whose starting configuration is kept.
KeyRead(k, start) == IF start = NoData THEN <<>> ELSE <<k>>

(***************************************************************************)
(* processMarkdown of VideoPlugin                                          *)
(***************************************************************************)
Min(S) == CHOOSE x \in S : \A y \in S : x <= y

\* `url && this.isYouTubeUrl(url)` for the anchor at index j of arr.
Recognized(c, arr, j) ==
    LET url == c[arr[j]].href IN url # NoHref /\ isYouTubeUrl(url)

Candidates(c, arr, i) == {j \in i..Len(arr) : Recognized(c, arr, j)}

RunLoopEager(c, arr, i, issued) ==
    IF Candidates(c, arr, i) = {}
    THEN /\ pc' = "done"
         /\ idx' = Len(arr) + 1
         /\ calls' = issued
    ELSE /\ pc' = "awaitEmbed"
         /\ idx' = Min(Candidates(c, arr, i))
         /\ calls' = [issued EXCEPT
                        !.embed = @ + Cardinality(Candidates(c, arr, i))]

RunLoopFromStart(c, arr, i, issued) ==
    IF Candidates(c, arr, 1) = {}
    THEN /\ pc' = "done"
         /\ idx' = Len(arr) + 1
         /\ calls' = issued
    ELSE /\ pc' = "awaitEmbed"
         /\ idx' = Min(Candidates(c, arr, 1))
         /\ calls' = [issued EXCEPT !.embed = @ + 1]

\* The for loop run from index i to its next await, or to its end.
RunLoop(c, arr, i, issued) ==
    IF Candidates(c, arr, i) = {}
    THEN /\ pc' = "done"
         /\ idx' = Len(arr) + 1
         /\ calls' = issued
    ELSE /\ pc' = "awaitEmbed"
         /\ idx' = Min(Candidates(c, arr, i))
         /\ calls' = [issued EXCEPT !.embed = @ + 1]

\* querySelectorAll("a"), in document order.
RECURSIVE AnchorsFrom(_, _)
AnchorsFrom(c, k) ==
    IF k > Len(c) THEN <<>>
    ELSE IF c[k].tag = "a" THEN <<k>> \o AnchorsFrom(c, k + 1)
    ELSE AnchorsFrom(c, k + 1)

\* processMarkdown up to its first await, on an element with children c.
StartPass(c) ==
    /\ content' = c
    /\ anchorArray' = AnchorsFrom(c, 1)
    /\ RunLoop(c, anchorArray', 1, NoCalls)
    /\ subs' = 0
    /\ results' = <<>>
    /\ last' = <<>>
    /\ iconSeenOn' = settings.showChannelIcon
    /\ cleanStart' =
         /\ \E k \in 1..Len(c) : IsPretty(c[k])
         /\ \A k \in 1..Len(c) :
              IsPretty(c[k]) \/ c[k].href = NoHref \/ ~isYouTubeUrl(c[k].href)
    /\ cand' = NoReads
    /\ settled' = 0
    /\ UNCHANGED <<data, channelId>>
    /\ UNCHANGED <<settingsVars, textVars, urlVars>>

\* The host renders a fragment and calls the registered post processor.
processMarkdown(c) ==
    /\ pc = "idle"
    /\ StartPass(c)
    /\ UNCHANGED startSettings

\* The same call, with the configuration in force at the call kept for
\* comparison with what the pass reads later.
processMarkdownLogged(c) ==
    /\ pc = "idle"
    /\ StartPass(c)
    /\ startSettings' = settings

\* The post processor is called once more on the element it has processed.
processMarkdownAgain ==
    /\ pc = "done"
    /\ StartPass(content)
    /\ UNCHANGED startSettings

\* The promise of processMarkdown has resolved; the host keeps the element
\* and the plugin holds nothing of the pass any more.
passReturned ==
    /\ pc = "done"
    /\ pc' = "idle"
    /\ content' = <<>> /\ anchorArray' = <<>> /\ idx' = 0
    /\ calls' = NoCalls /\ last' = <<>> /\ results' = <<>> /\ subs' = 0
    /\ iconSeenOn' = FALSE /\ cleanStart' = FALSE
    /\ startSettings' = NoData /\ cand' = NoReads /\ settled' = 0
    /\ UNCHANGED <<data, channelId>>
    /\ UNCHANGED <<settingsVars, textVars, urlVars>>

\* fetchVideoMetadata has returned meta (<<>> for null, else <<record>>) for
\* the current anchor: lines 64-67 and the loop up to its next await.
Resolved(meta, entry) ==
    LET pos == anchorArray[idx]
        c2 == IF meta = <<>> THEN content
              ELSE [content EXCEPT
                      ![pos] = createPrettyLink(meta[1], settings)]
    IN  /\ content' = c2
        /\ subs' = IF meta = <<>> THEN subs ELSE subs + 1
        /\ results' = Append(results, meta # <<>>)
        /\ last' = [entry EXCEPT !.meta = meta, !.pos = pos]
        /\ RunLoop(c2, anchorArray, idx + 1, calls)
        /\ data' = "none"
        /\ channelId' = Null

\* What is recorded of a fetchVideoMetadata call: the embed outcome, whether
\* the icon lookup ran, the channel id it obtained, whether fetchChannelIcon
\* raised, and the value returned (meta).
Entry(embed, iconAsked, id, threw) ==
    [pos |-> 0, embed |-> embed, iconAsked |-> iconAsked, channelId |-> id,
     iconThrew |-> threw, meta |-> <<>>]

\* The embed-info fetch settles with outcome o (lines 79-86).
EmbedResponse(o) ==
    /\ pc = "awaitEmbed"
    /\ LET url == content[anchorArray[idx]].href IN
       IF EmbedThrows(o) \/ ~EmbedDataTruthy(o)
       THEN /\ Resolved(<<>>, Entry(o, FALSE, Null, FALSE))
            /\ cand' = NoReads
       ELSE IF IconGate(settings)
       THEN /\ data' = o
            /\ calls' = [calls EXCEPT !.search = @ + 1]
            /\ pc' = "awaitSearch"
            /\ cand' = [NoReads EXCEPT !.icon = <<IconGate(settings)>>,
                                       !.searchKey =
                                         KeyRead(settings.apiKey,
                                                 startSettings)]
            /\ UNCHANGED <<content, subs, results, last, idx, channelId>>
       ELSE /\ Resolved(<<Metadata(EmbedBody(o), url, Null)>>,
                        Entry(o, FALSE, Null, FALSE))
            /\ cand' = [NoReads EXCEPT !.icon = <<IconGate(settings)>>,
                                       !.thumb = <<settings.showThumbnail>>]
    /\ settled' = settled + 1
    /\ UNCHANGED startSettings
    /\ UNCHANGED <<anchorArray, iconSeenOn, cleanStart>>
    /\ UNCHANGED <<settingsVars, textVars, urlVars>>

\* The channel search settles with outcome o (lines 103-106, 127-141).
SearchResponse(o) ==
    /\ pc = "awaitSearch"
    /\ channelId' = getChannelIdFromUrl(o)
    /\ calls' = [calls EXCEPT !.detail = @ + 1]
    /\ pc' = "awaitDetail"
    /\ cand' = [cand EXCEPT
                  !.detailKey = KeyRead(settings.apiKey, startSettings)]
    /\ settled' = settled + 1
    /\ UNCHANGED startSettings
    /\ UNCHANGED <<content, anchorArray, idx, data, last, results, subs,
                   iconSeenOn, cleanStart>>
    /\ UNCHANGED <<settingsVars, textVars, urlVars>>

\* The channel detail fetch settles with outcome o (lines 107-114, 87-98).
DetailResponse(o) ==
    /\ pc = "awaitDetail"
    /\ LET url == content[anchorArray[idx]].href
           icon == fetchChannelIcon(o)
           entry == Entry(data, TRUE, channelId, icon.threw)
       IN  IF icon.threw
           THEN Resolved(<<>>, entry)
           ELSE Resolved(<<Metadata(EmbedBody(data), url, icon.value)>>, entry)
    /\ cand' = [cand EXCEPT
                  !.thumb = IF fetchChannelIcon(o).threw THEN <<>>
                            ELSE <<settings.showThumbnail>>,
                  !.detail = IF o = "ok" THEN "ok" ELSE "fail"]
    /\ settled' = settled + 1
    /\ UNCHANGED startSettings
    /\ UNCHANGED <<anchorArray, iconSeenOn, cleanStart>>
    /\ UNCHANGED <<settingsVars, textVars, urlVars>>

(***************************************************************************)
(* The plugin: settings tab and render passes                              *)
(***************************************************************************)
Init ==
    /\ stored \in StoredAtLoad
    /\ settings = loadSettings(stored)
    /\ lastSave = "none" /\ notice = FALSE
    /\ apiKeyDisplay = "unset"
    /\ content = <<>>
    /\ pc = "idle" /\ anchorArray = <<>> /\ idx = 0
    /\ data = "none" /\ channelId = Null
    /\ calls = NoCalls /\ last = <<>>
    /\ results = <<>> /\ subs = 0
    /\ iconSeenOn = FALSE /\ cleanStart = FALSE
    /\ startSettings = NoData /\ cand = NoReads /\ settled = 0
    /\ html = <<>> /\ matches = <<>>
    /\ u = <<>> /\ verdict = "unasked"

\* A settings-tab event; it may arrive while a pass is suspended at an await.
SettingsStep ==
    /\ \/ display
       \/ \E value \in BOOLEAN : onChangeThumbnail(value)
       \/ \E value \in BOOLEAN : onChangeChannelIcon(value)
       \/ \E value \in Keys : onChangeApiKey(value)
    /\ iconSeenOn' =
         (iconSeenOn \/ (pc \notin {"idle", "done"}
                           /\ settings'.showChannelIcon))
    /\ UNCHANGED <<content, pc, anchorArray, idx, data, channelId, calls,
                   last, results, subs, cleanStart, startSettings, cand,
                   settled>>
    /\ UNCHANGED <<textVars, urlVars>>

Next ==
    \/ SettingsStep
    \/ \E c \in Contents : processMarkdown(c)
    \/ passReturned
    \/ \E o \in EmbedOutcomes : EmbedResponse(o)
    \/ \E o \in SearchOutcomes : SearchResponse(o)
    \/ \E o \in DetailOutcomes : DetailResponse(o)

Spec == Init /\ [][Next]_vars

\* The same plugin when the host may also run the post processor again on an
\* element that a pass has already rewritten.
NextRerun ==
    \/ Next
    \/ processMarkdownAgain

SpecRerun == Init /\ [][NextRerun]_vars

\* The same plugin with every pass logged against its starting configuration.
NextSnapshot ==
    \/ SettingsStep
    \/ \E c \in Contents : processMarkdownLogged(c)
    \/ passReturned
    \/ \E o \in EmbedOutcomes : EmbedResponse(o)
    \/ \E o \in SearchOutcomes : SearchResponse(o)
    \/ \E o \in DetailOutcomes : DetailResponse(o)

SpecSnapshot == Init /\ [][NextSnapshot]_vars

\* The fetch the pass is suspended on returns or fails.
FetchSettles ==
    \/ \E o \in EmbedOutcomes : EmbedResponse(o)
    \/ \E o \in SearchOutcomes : SearchResponse(o)
    \/ \E o \in DetailOutcomes : DetailResponse(o)

\* Every external call eventually returns or fails (a pass waits on one
\* fetch at a time, so one condition covers the three kinds). Settings
\* events and new renders are under no obligation to happen.
SpecLive == Init /\ [][Next]_vars /\ WF_vars(FetchSettles)

(***************************************************************************)
(* MyPlugin (src/main.ts): the regex-over-innerHTML pipeline               *)
(*                                                                         *)
(* innerHTML is a sequence of slots, one per whitespace-separated word of  *)
(* the text handed to the pass; a slot holds the words that now stand in   *)
(* the place of that word (the word itself until something is substituted  *)
(* into it).  The string the code sees is the words of all slots in order, *)
(* separated by whitespace.                                                *)
(***************************************************************************)
DEFAULT_SETTINGS_Text == [showThumbnail |-> TRUE]

loadSettingsText(loaded) ==
    [f \in {"showThumbnail"} |-> IF f \in DOMAIN loaded THEN loaded[f]
                                 ELSE DEFAULT_SETTINGS_Text[f]]

\* onChange of the Show Thumbnail toggle; saveSettings saves unconditionally.
onChangeShowThumbnail(value) ==
    /\ settings' = [settings EXCEPT !.showThumbnail = value]
    /\ stored' = settings'
    /\ lastSave' = "saved"
    /\ UNCHANGED <<notice, apiKeyDisplay>>
    /\ UNCHANGED <<passVars, textVars, urlVars>>

Words == {YT1, YT1 \o <<"a">>, <<"a">>}

Texts == UNION {[1..n -> {<<w>> : w \in Words}] : n \in 1..MaxWords}

\* A match of youtubeRegex inside a word starts at the first position where
\* the regex matches and, \S+ being greedy, runs to the end of the word.
HasMatch(w) == \E p \in 1..Len(w) : MatchesAt(w, p)

MatchOf(w) ==
    SubSeq(w, Min({p \in 1..Len(w) : MatchesAt(w, p)}), Len(w))

RECURSIVE WordMatches(_, _, _)
WordMatches(ws, k, j) ==
    IF j > Len(ws) THEN <<>>
    ELSE (IF HasMatch(ws[j])
          THEN <<[url |-> MatchOf(ws[j]), slot |-> k, word |-> ws[j]]>>
          ELSE <<>>) \o WordMatches(ws, k, j + 1)

\* element.innerHTML.match(youtubeRegex) with the g flag: every match, in
\* order; each is recorded with the slot and word it was found in.
RECURSIVE MatchAll(_, _)
MatchAll(h, k) ==
    IF k > Len(h) THEN <<>>
    ELSE WordMatches(h[k], k, 1) \o MatchAll(h, k + 1)

\* Positions at which url occurs in the word w.
Occurrences(w, url) ==
    {p \in 1..Len(w) : p + Len(url) - 1 <= Len(w)
                       /\ SubSeq(w, p, p + Len(url) - 1) = url}

\* The word w with the occurrence of n tokens at p replaced by the words of
\* outer (which contains whitespace, so the word splits).
Splice(w, p, n, outer) ==
    LET pre == SubSeq(w, 1, p - 1)
        suf == SubSeq(w, p + n, Len(w))
        m == Len(outer)
    IN  IF m = 1 THEN <<pre \o outer[1] \o suf>>
        ELSE <<pre \o outer[1]>> \o SubSeq(outer, 2, m - 1)
                 \o <<outer[m] \o suf>>

\* Slot and word of every occurrence of url in h.
OccurrenceWords(h, url) ==
    UNION {{<<k, j>> : j \in {i \in 1..Len(h[k]) :
                                Occurrences(h[k][i], url) # {}}} :
           k \in 1..Len(h)}

FirstWord(S) ==
    CHOOSE x \in S :
        \A y \in S : x[1] < y[1] \/ (x[1] = y[1] /\ x[2] <= y[2])

\* innerHTML.replace(url, outerHTML) with a string pattern: the first
\* occurrence of url in the whole string is replaced.
ReplaceFirst(h, url, outer) ==
    IF OccurrenceWords(h, url) = {} THEN h
    ELSE LET kj == FirstWord(OccurrenceWords(h, url))
             k == kj[1]
             j == kj[2]
             w == h[k][j]
         IN  [h EXCEPT ![k] =
                SubSeq(h[k], 1, j - 1)
                  \o Splice(w, Min(Occurrences(w, url)), Len(url), outer)
                  \o SubSeq(h[k], j + 1, Len(h[k]))]

\* prettyLink.outerHTML of MyPlugin.createPrettyLink, as its
\* whitespace-separated words.
createPrettyLinkText(metadata, s) ==
    (IF s.showThumbnail
     THEN << <<"<div">>,
             <<"class=video-metadata-container><img">>,
             <<"class=video-thumbnail">>,
             <<"src=", metadata.thumbnail_url, "><div">> >>
     ELSE << <<"<div">>,
             <<"class=video-metadata-container><div">> >>)
    \o << <<"class=video-title>", metadata.title, "</div><div">>,
          <<"class=video-author>by">>,
          <<metadata.author_name, "</div></div>">> >>

MetadataText(body) ==
    [title |-> body.title, author_name |-> body.author_name,
     thumbnail_url |-> body.thumbnail_url]

\* processMarkdown of MyPlugin up to its first await, on text h.
processMarkdownText(h) ==
    /\ pc = "idle"
    /\ html' = h
    /\ matches' = MatchAll(h, 1)
    /\ idx' = 1
    /\ IF Len(matches') = 0
       THEN pc' = "done" /\ calls' = NoCalls
       ELSE pc' = "awaitEmbed" /\ calls' = [NoCalls EXCEPT !.embed = 1]
    /\ results' = <<>> /\ subs' = 0 /\ last' = <<>>
    /\ UNCHANGED <<content, anchorArray, data, channelId, iconSeenOn,
                   cleanStart, startSettings, cand, settled>>
    /\ UNCHANGED <<settingsVars, urlVars>>

\* The embed-info fetch of MyPlugin.fetchVideoMetadata settles with o; then
\* lines 59-65 and the loop up to its next await.
EmbedResponseText(o) ==
    /\ pc = "awaitEmbed"
    /\ LET meta == IF EmbedThrows(o) \/ ~EmbedDataTruthy(o) THEN <<>>
                   ELSE <<MetadataText(EmbedBody(o))>>
       IN  /\ html' = IF meta = <<>> THEN html
                      ELSE ReplaceFirst(html, matches[idx].url,
                                        createPrettyLinkText(meta[1], settings))
           /\ subs' = IF meta = <<>> THEN subs ELSE subs + 1
           /\ results' = Append(results, meta # <<>>)
           /\ last' = [Entry(o, FALSE, Null, FALSE) EXCEPT
                         !.meta = meta, !.pos = matches[idx].slot]
    /\ idx' = idx + 1
    /\ IF idx + 1 > Len(matches)
       THEN pc' = "done" /\ calls' = calls
       ELSE pc' = "awaitEmbed" /\ calls' = [calls EXCEPT !.embed = @ + 1]
    /\ UNCHANGED <<matches, content, anchorArray, data, channelId,
                   iconSeenOn, cleanStart, startSettings, cand, settled>>
    /\ UNCHANGED <<settingsVars, urlVars>>

passReturnedText ==
    /\ pc = "done"
    /\ pc' = "idle"
    /\ html' = <<>> /\ matches' = <<>> /\ idx' = 0
    /\ calls' = NoCalls /\ last' = <<>> /\ results' = <<>> /\ subs' = 0
    /\ UNCHANGED <<content, anchorArray, data, channelId, iconSeenOn,
                   cleanStart, startSettings, cand, settled>>
    /\ UNCHANGED <<settingsVars, urlVars>>

InitText ==
    /\ stored \in {NoData} \cup [showThumbnail : BOOLEAN]
    /\ settings = loadSettingsText(stored)
    /\ lastSave = "none" /\ notice = FALSE
    /\ apiKeyDisplay = "unset"
    /\ content = <<>>
    /\ pc = "idle" /\ anchorArray = <<>> /\ idx = 0
    /\ data = "none" /\ channelId = Null
    /\ calls = NoCalls /\ last = <<>>
    /\ results = <<>> /\ subs = 0
    /\ iconSeenOn = FALSE /\ cleanStart = FALSE
    /\ startSettings = NoData /\ cand = NoReads /\ settled = 0
    /\ html = <<>> /\ matches = <<>>
    /\ u = <<>> /\ verdict = "unasked"

NextText ==
    \/ \E value \in BOOLEAN : onChangeShowThumbnail(value)
    \/ \E h \in Texts : processMarkdownText(h)
    \/ \E o \in EmbedOutcomes : EmbedResponseText(o)
    \/ passReturnedText

SpecText == InitText /\ [][NextText]_vars

(***************************************************************************)
(* URL classifier on its own                                               *)
(***************************************************************************)
Strings == UNION {[1..n -> Sym] : n \in 0..MaxUrlLen}

InitUrl ==
    /\ u \in Strings
    /\ verdict = "unasked"
    /\ settings = DEFAULT_SETTINGS /\ stored = NoData
    /\ lastSave = "none" /\ notice = FALSE
    /\ apiKeyDisplay = "unset"
    /\ content = <<>>
    /\ pc = "idle" /\ anchorArray = <<>> /\ idx = 0
    /\ data = "none" /\ channelId = Null
    /\ calls = NoCalls /\ last = <<>>
    /\ results = <<>> /\ subs = 0
    /\ iconSeenOn = FALSE /\ cleanStart = FALSE
    /\ startSettings = NoData /\ cand = NoReads /\ settled = 0
    /\ html = <<>> /\ matches = <<>>

Classify ==
    /\ verdict = "unasked"
    /\ verdict' = IF isYouTubeUrl(u) THEN "true" ELSE "false"
    /\ UNCHANGED <<u, settingsVars, passVars, textVars>>

NextUrl == Classify

SpecUrl == InitUrl /\ [][NextUrl]_vars

(***************************************************************************)
(* Properties                                                              *)
(***************************************************************************)
\* data.json holds showChannelIcon = true together with an empty apiKey.
StoredInvalid ==
    /\ "showChannelIcon" \in DOMAIN stored
    /\ "apiKey" \in DOMAIN stored
    /\ stored.showChannelIcon
    /\ stored.apiKey = ""

\* C1: saveSettings writes the store exactly when NOT (showChannelIcon and
\* apiKey empty); a rejected save shows a notice and leaves the store as it
\* was; the store never holds showChannelIcon = true with an empty apiKey.
C1_SaveGuard ==
    /\ [](lastSave # "none" =>
            /\ (lastSave = "saved")
                 <=> ~(settings.showChannelIcon /\ settings.apiKey = "")
            /\ (lastSave = "saved" => stored = settings /\ ~notice)
            /\ (lastSave = "rejected" => notice))
    /\ [](~StoredInvalid)
    /\ [][lastSave' = "rejected" => stored' = stored]_vars

\* A save was rejected after an earlier one had been written.
C1_RejectedAfterWrite ==
    /\ lastSave = "rejected"
    /\ notice
    /\ "apiKey" \in DOMAIN stored
    /\ stored # settings
    /\ settings.showChannelIcon /\ settings.apiKey = ""

\* C2: a pass over content whose recognized links have all been replaced
\* already performs zero substitutions.
C2_SecondPassIdle == cleanStart => subs = 0

\* C3: fetchVideoMetadata returns a record only when the embed-info body
\* holds a title, an author name and a thumbnail; otherwise it returns null.
C3_NoPartialMetadata ==
    (last # <<>> /\ last.meta # <<>>) =>
        /\ last.meta[1].title # Undefined
        /\ last.meta[1].author_name # Undefined
        /\ last.meta[1].thumbnail_url # Undefined

\* C4: in a pass during which showChannelIcon is false throughout, neither
\* the channel search nor the channel detail fetch is issued.
C4_IconGating ==
    (pc # "idle" /\ ~iconSeenOn) => (calls.search = 0 /\ calls.detail = 0)

\* A finished pass with the icon off, a key present and a link replaced.
C4_GatedPassWithKey ==
    /\ pc = "done"
    /\ ~iconSeenOn
    /\ settings.apiKey # ""
    /\ calls.embed >= 1
    /\ subs >= 1

\* C5: at the end of a pass over several links, every candidate whose
\* resolution failed stands unchanged and every candidate whose resolution
\* succeeded has been replaced, in place.
C5_PerCandidateIsolation ==
    pc = "done" =>
        /\ Len(results) = Len(matches)
        /\ \A i \in 1..Len(matches) :
             LET k == matches[i].slot IN
             /\ ~results[i] => html[k] = <<matches[i].word>>
             /\ results[i] => html[k] # <<matches[i].word>>

\* C6: a substitution rewrites the occurrence whose metadata was just
\* resolved and no other.
C6_ExactOccurrence ==
    [][(Len(results') = Len(results) + 1 /\ html' # html) =>
         \A k \in 1..Len(html) :
             k # matches[idx].slot => html'[k] = html[k]]_vars

\* C7: when the channel search yields no identifier, fetchChannelIcon
\* yields null whatever the channel detail service answers.
C7_NoIconWithoutChannelId ==
    (last # <<>> /\ last.iconAsked /\ last.channelId = Null) =>
        (last.meta = <<>> \/ ~Truthy(last.meta[1].channel_icon_url))

\* C8: fetchChannelIcon never throws, a failure of either of its calls
\* gives no icon, and fetchVideoMetadata still returns the base record.
C8_IconFailureLocal ==
    (last # <<>> /\ last.iconAsked) =>
        /\ ~last.iconThrew
        /\ last.meta # <<>>
        /\ last.meta[1].title = EmbedBody(last.embed).title
        /\ last.meta[1].author_name = EmbedBody(last.embed).author_name
        /\ last.meta[1].thumbnail_url = EmbedBody(last.embed).thumbnail_url
        /\ last.meta[1].url = content[last.pos].href
        /\ (last.channelId = Null => last.meta[1].channel_icon_url = Null)

\* The form the classifier is documented to accept: the whole string is
\* scheme://[www.]host/path with a non-empty, whitespace-free path.
WholeUrlForm(s) ==
    \E q \in PathStarts(s, 1) : \A k \in q..Len(s) : s[k] # " "

\* C9: isYouTubeUrl(u) is true exactly when u as a whole has the form
\* scheme://[www.]host/path (http or https, host youtube.com or youtu.be,
\* non-empty whitespace-free path); a string that only contains such a URL
\* after other text classifies as false.
C9_AnchoredClassifier ==
    verdict # "unasked" => ((verdict = "true") <=> WholeUrlForm(u))

\* C10: the node built by createPrettyLink holds a thumbnail image exactly
\* when showThumbnail is set and the thumbnail URL is non-empty, and a
\* channel-icon image exactly when the channel icon URL is present.
C10_ThumbnailRule ==
    [][(Len(results') = Len(results) + 1 /\ last'.meta # <<>>) =>
         LET m == last'.meta[1]
             n == content'[last'.pos]
         IN  /\ (n.thumbnail # <<>>)
                  <=> (settings.showThumbnail /\ Truthy(m.thumbnail_url))
             /\ (n.icon # <<>>) <=> Truthy(m.channel_icon_url)]_vars

(***************************************************************************)
(* C11: a pass over one recognised link, all three services well formed    *)
(***************************************************************************)
\* The pass has ended; it had one candidate, the embed body was the full
\* record, the gate was read as true, the search gave a channel id, the
\* channels answer was well formed and showThumbnail was read as true.
SinglePassSucceeded ==
    /\ pc = "done" /\ calls.embed = 1 /\ Len(results) = 1
    /\ last.embed = "full"
    /\ cand.icon = <<TRUE>> /\ last.channelId # Null /\ cand.detail = "ok"
    /\ cand.thumb = <<TRUE>>

\* C11: when a pass over content with a single recognised link reads
\* showThumbnail and showChannelIcon as true and all three services answer
\* with well-formed bodies, the content ends with exactly one replacement
\* node, in the link's place, holding the thumbnail image, the fetched
\* title, the fetched author name and the channel-icon image; and the step
\* that builds it keeps the link's URL as the node's target and adds or
\* removes no other node. (It holds for whatever key the well-formed answers
\* were obtained with, so for a non-empty one.)
C11_EndToEnd ==
    /\ [](SinglePassSucceeded =>
            LET n == content[last.pos] IN
              /\ {k \in DOMAIN content : IsPretty(content[k])} = {last.pos}
              /\ subs = 1
              /\ n.thumbnail = <<"thumb">>
              /\ n.title = "T" /\ n.author = "A"
              /\ n.icon = <<"icon">>)
    /\ [][(SinglePassSucceeded' /\ pc = "awaitDetail") =>
            /\ content'[last'.pos].href = content[last'.pos].href
            /\ isYouTubeUrl(content[last'.pos].href)
            /\ \A k \in DOMAIN content :
                 k # last'.pos => content'[k] = content[k]
            /\ DOMAIN content' = DOMAIN content]_vars

\* Such a pass has ended with a non-empty key and both toggles on.
C11_SuccessReached ==
    /\ SinglePassSucceeded
    /\ settings.showThumbnail /\ settings.showChannelIcon
    /\ settings.apiKey # ""
    /\ Len(content) = MaxAnchors

(***************************************************************************)
(* C12: one call at a time, candidates in document order                   *)
(***************************************************************************)
\* Fetches of the pass that were issued and have not settled.
Outstanding == calls.embed + calls.search + calls.detail - settled

\* C12: at every moment at most one external call of the pass is
\* outstanding, and none once the pass has ended; the embed call of a
\* candidate is issued only when every earlier candidate is resolved, its
\* icon calls settled and its substitution applied; each resolution is at a
\* later document position than the one before it.
C12_Sequential ==
    /\ [](/\ Outstanding \in {0, 1}
          /\ (Outstanding = 1) = (pc \in {"awaitEmbed", "awaitSearch",
                                          "awaitDetail"})
          /\ calls.embed <= Len(results) + 1
          /\ calls.detail <= calls.search /\ calls.search <= calls.embed)
    /\ [][calls'.embed = calls.embed + 1 =>
            /\ Len(results') = calls.embed
            /\ settled' = calls.embed + calls'.search + calls'.detail
            /\ (calls.embed >= 1 =>
                  /\ last'.pos < anchorArray'[idx']
                  /\ results'[Len(results')] = IsPretty(content'[last'.pos]))
         ]_vars
    /\ [][(Len(results') = Len(results) + 1 /\ Len(results) >= 1) =>
            last'.pos > last.pos]_vars

\* The second candidate's embed call is outstanding after the first candidate
\* went through both icon calls and was replaced.
C12_SecondAfterFirst ==
    /\ pc = "awaitEmbed" /\ calls.embed = 2 /\ calls.detail = 1
    /\ Len(results) = 1 /\ results[1]
    /\ IsPretty(content[last.pos])

(***************************************************************************)
(* C13: the key the icon calls are issued with                             *)
(***************************************************************************)
\* C13: a channel search or a channel detail fetch is issued only while
\* apiKey is non-empty.
C13_IconCallsKeyed ==
    [][(calls'.search > calls.search \/ calls'.detail > calls.detail) =>
         settings'.apiKey # ""]_vars

(***************************************************************************)
(* C14: the configuration a pass reads                                     *)
(***************************************************************************)
\* C14: every setting a logged pass has read while resolving a candidate
\* (the gate, the key of the search, the key of the detail fetch, the
\* thumbnail toggle at the build) has the value it had when the pass
\* started.
C14_SingleConfiguration ==
    startSettings # NoData =>
      /\ cand.icon \in {<<>>, <<startSettings.showChannelIcon>>}
      /\ cand.searchKey \in {<<>>, <<startSettings.apiKey>>}
      /\ cand.detailKey \in {<<>>, <<startSettings.apiKey>>}
      /\ cand.thumb \in {<<>>, <<startSettings.showThumbnail>>}

(***************************************************************************)
(* C15: termination and exactly-once processing                            *)
(***************************************************************************)
\* C15: when every fetch settles, a pass that has started ends; during a
\* pass the candidate array is the one taken at its start, nodes put in do
\* not enter it, each resolution is of an anchor at a later index than
\* every earlier one, and there are never more resolutions (or embed calls)
\* than anchors taken at the start.
C15_TerminatesOnce ==
    /\ (pc \in {"awaitEmbed", "awaitSearch", "awaitDetail"}) ~> (pc = "done")
    /\ [](/\ Len(results) <= Len(anchorArray)
          /\ calls.embed <= Len(anchorArray))
    /\ [][(pc # "idle" /\ pc # "done") =>
            /\ anchorArray' = anchorArray
            /\ idx' >= idx
            /\ (Len(results') > Len(results) =>
                  /\ Len(results') = Len(results) + 1
                  /\ idx' > idx
                  /\ last'.pos = anchorArray[idx])]_vars

\* A pass over two recognised links has ended with both replaced: the
\* content then holds two anchors a fresh query would select and recognise.
C15_BothReplacedDone ==
    /\ pc = "done" /\ subs = 2 /\ Len(results) = 2
    /\ \A k \in DOMAIN content : IsPretty(content[k])
====
